---- MODULE Spec2Model ----
(***************************************************************************)
(* Model of quizydude.py: the per-category shuffle bags                    *)
(* (QUIZ_DATA / shuffled_quizzes / reset_shuffled_quiz / send_quiz), the   *)
(* poll session store (store_poll_session / get_poll_session) and the      *)
(* score keeping of handle_poll_answer (ensure_user / update_score).       *)
(*                                                                         *)
(* Every handler invocation is a task of the dispatcher's event loop.  A   *)
(* task is suspended only at its awaits (database calls, transport calls); *)
(* the code between two awaits is one atomic step.  aiosqlite runs the     *)
(* statements of the single connection one at a time, so the statement of  *)
(* a database helper is one atomic step.  A helper that writes awaits      *)
(* execute and then commit: it returns with its statement applied, or      *)
(* raises from execute with nothing written, or raises from commit with    *)
(* the statement applied on the connection every task reads through.       *)
(***************************************************************************)
EXTENDS Integers, Sequences, FiniteSets, Bags, TLC

\* ------------------------------------------------------------------ bounds
MaxRequests    == 2   \* questions popped in one concurrent run
MaxAnswers     == 1   \* poll answers scored in one run
MaxSeqRequests == 8   \* questions popped in one sequential run
MaxRepeatRequests == 1   \* questions popped in one run of repeated answers
MaxRepeatAnswers  == 3   \* poll answers scored in one run of repeated answers
MaxFaults      == 1   \* database / transport calls that raise in one run
\* The leaderboard size the environment sets (10 when it sets none), here
\* below the number of users, so that the LIMIT of the query cuts.
LEADERBOARD_SIZE == 1

\* ------------------------------------------------------------ value spaces
Tasks    == {"t1", "t2"}      \* handler invocations in flight together
SeqTasks == {"t1"}            \* handlers run one after the other
Users   == {"u1", "u2"}       \* users who answer polls
Senders == {"u1"}             \* users who send commands
NoUser  == "no_user"          \* message.from_user is None
NoPoll  == ""                 \* "no poll yet" in a task's locals
ForeignPoll == "unknown-id"   \* a poll id this process never sent
NoQuestion == <<>>

\* The question records of the model: (question_text, options, correct_id).
Q1 == <<"q1", <<"a", "b">>, 1>>
Q2 == <<"q2", <<"a", "b">>, 0>>

\* The dict literal QUIZ_DATA, cut down to two of its six categories.
BaseQuizData == [xquiz |-> <<Q1>>, squiz |-> <<Q2>>]

\* The same literal with a category that holds no question.
EmptiedQuizData == [xquiz |-> <<>>, squiz |-> <<Q2>>]

\* The keys of the dict literal in insertion order, followed by the key the
\* "Build mixed quiz" code adds before it iterates QUIZ_DATA.values().
BaseKeys == <<"xquiz", "squiz">>
QuizCommands == {"xquiz", "squiz", "aquiz"}
\* A quiz_type that is no key of QUIZ_DATA (no command handler passes one).
UnknownCategory == "zquiz"

\* --------------------------------------------------------------- variables
VARIABLES
  QUIZ_DATA,         \* category -> list of question records
  shuffled_quizzes,  \* category -> the bag (list, popped from its end)
  users,             \* table users: user_id -> [wins, losses]
  quiz_sessions,     \* table quiz_sessions: poll_id -> row
  polls,             \* transport: polls created by answer_poll
  task,              \* task slot -> locals of the handler running in it
  reply,             \* what the step just taken told the chat or the log
  popped,            \* history: category -> entries popped so far, in order
  refillAt,          \* history: category -> Len(popped) at each refill
  scored,            \* history, kept in the runs of repeated answers: the
                     \* (poll id, user) pairs update_score has run for
  updates,           \* history: user -> calls of update_score that returned
  run,               \* the kind of run explored (fixed by Init)
  faults             \* database / transport calls that have raised so far

vars == <<QUIZ_DATA, shuffled_quizzes, users, quiz_sessions, polls, task,
          reply, popped, refillAt, scored, updates, run, faults>>

\* ------------------------------------------------------------ pure helpers
SeqToBag(s) == [x \in {s[i] : i \in DOMAIN s} |->
                  Cardinality({i \in DOMAIN s : s[i] = x})]

\* list.extend
Extend(l, m) == l \o m

\* "Build mixed quiz": QUIZ_DATA["aquiz"] = [] is inserted first, so the
\* loop over QUIZ_DATA.values() visits the base lists in key order and then
\* the mixed list itself; each visit extends the mixed list by the visited
\* list as it is at that moment.
RECURSIVE ExtendAll(_, _, _)
ExtendAll(data, keys, acc) ==
  IF keys = <<>> THEN acc
  ELSE ExtendAll(data, Tail(keys),
                 Extend(acc, IF Head(keys) = "aquiz" THEN acc
                             ELSE data[Head(keys)]))

BuildMixedQuiz(data) ==
  [k \in DOMAIN data \cup {"aquiz"} |->
     IF k = "aquiz" THEN ExtendAll(data, BaseKeys \o <<"aquiz">>, <<>>)
     ELSE data[k]]

\* copy.deepcopy of a list of immutable records: an equal, separate list.
DeepCopy(l) == l

\* A bag that is the category's list itself (assigned without the copy):
\* what is done to the bag in place is done to the list.
ListSharedWithBag(list, bag) == bag

\* A category's list after its bag was shuffled or popped in place
\* (random.shuffle, list.pop): the bag is the deepcopy, a list object of its
\* own, so the category's list is what it was.
ListAfterBagChange(list, bag) == list

\* A draw with replacement (random.choices) in the place of the shuffle: as
\* many entries as the list has, each of them any entry of the list.
ShuffleSample(l) == [DOMAIN l -> {l[i] : i \in DOMAIN l}]

\* random.shuffle: any reordering of the list.
Shuffle(l) == {[i \in DOMAIN l |-> l[p[i]]] : p \in Permutations(DOMAIN l)}

\* A reset that writes nothing (as if it were given a key it does not know).
ResetShuffledQuizNoop(data, bags, quiz_type) == {bags}

\* A reset that gives a key it does not know an empty bag.
ResetShuffledQuizAnyKey(data, bags, quiz_type) ==
  IF quiz_type \in DOMAIN data
  THEN {[bags EXCEPT ![quiz_type] = s] : s \in Shuffle(DeepCopy(data[quiz_type]))}
  ELSE {[k \in DOMAIN bags \cup {quiz_type} |->
           IF k = quiz_type THEN <<>> ELSE bags[k]]}

\* A reset that reshuffles every bag, whichever category asked for it.
ResetShuffledQuizAll(data, bags, quiz_type) ==
  IF quiz_type \in DOMAIN data
  THEN {b \in [DOMAIN bags -> UNION {Shuffle(DeepCopy(data[k])) : k \in DOMAIN bags}] :
          \A k \in DOMAIN bags : b[k] \in Shuffle(DeepCopy(data[k]))}
  ELSE {bags}

\* reset_shuffled_quiz: the bags it can leave behind.
ResetShuffledQuiz(data, bags, quiz_type) ==
  IF quiz_type \in DOMAIN data
  THEN {[bags EXCEPT ![quiz_type] = s] : s \in Shuffle(DeepCopy(data[quiz_type]))}
  ELSE {bags}

\* "if not shuffled_quizzes.get(quiz_type)" taken one entry too early.
NeedsResetEarly(bags, quiz_type) ==
  quiz_type \notin DOMAIN bags \/ Len(bags[quiz_type]) <= 1

\* "if not shuffled_quizzes.get(quiz_type)": no bag, or an empty one.
NeedsReset(bags, quiz_type) ==
  quiz_type \notin DOMAIN bags \/ bags[quiz_type] = <<>>

\* A read of the last entry that leaves it in the list.
PopRestKeep(l) == l

\* A pop that hands out the first entry while dropping the last.
PopItemFirst(l) == l[1]

\* list.pop(): the last element and the list without it.
PopItem(l) == l[Len(l)]
PopRest(l) == SubSeq(l, 1, Len(l) - 1)

\* An INSERT OR REPLACE that keeps the wins but not the losses.
EnsureUserLosesLosses(tbl, user_id) ==
  [u \in DOMAIN tbl \cup {user_id} |->
     IF u = user_id
     THEN [wins |-> IF user_id \in DOMAIN tbl THEN tbl[user_id].wins ELSE 0,
           losses |-> 0]
     ELSE tbl[u]]

\* An INSERT OR REPLACE that writes the column defaults.
EnsureUserReset(tbl, user_id) ==
  [u \in DOMAIN tbl \cup {user_id} |->
     IF u = user_id THEN [wins |-> 0, losses |-> 0] ELSE tbl[u]]

\* ensure_user: INSERT OR REPLACE keeping wins and losses through COALESCE.
EnsureUser(tbl, user_id) ==
  LET Coalesce(col) == IF user_id \in DOMAIN tbl THEN tbl[user_id][col] ELSE 0
  IN  [u \in DOMAIN tbl \cup {user_id} |->
         IF u = user_id THEN [wins |-> Coalesce("wins"), losses |-> Coalesce("losses")]
         ELSE tbl[u]]

\* An UPDATE without its WHERE clause: every user's column grows.
UpdateScoreAll(tbl, user_id, correct) ==
  LET column == IF correct THEN "wins" ELSE "losses"
  IN  [u \in DOMAIN tbl |-> [tbl[u] EXCEPT ![column] = @ + 1]]

\* A wrong answer that takes a win away instead of adding a loss.
UpdateScorePenalty(tbl, user_id, correct) ==
  [u \in DOMAIN tbl |->
     IF u = user_id
     THEN (IF correct THEN [tbl[u] EXCEPT !.wins = @ + 1]
           ELSE [tbl[u] EXCEPT !.wins = @ - 1])
     ELSE tbl[u]]

\* The column chosen the wrong way round.
UpdateScoreSwapped(tbl, user_id, correct) ==
  LET column == IF correct THEN "losses" ELSE "wins"
  IN  [u \in DOMAIN tbl |->
         IF u = user_id THEN [tbl[u] EXCEPT ![column] = @ + 1] ELSE tbl[u]]

\* update_score: UPDATE users SET column = column + 1 WHERE user_id = ?
UpdateScore(tbl, user_id, correct) ==
  LET column == IF correct THEN "wins" ELSE "losses"
  IN  [u \in DOMAIN tbl |->
         IF u = user_id THEN [tbl[u] EXCEPT ![column] = @ + 1] ELSE tbl[u]]

\* A store that writes the correct option counted from 1.
StorePollSessionOneBased(tbl, poll_id, correct_option_id, quiz_type) ==
  [p \in DOMAIN tbl \cup {poll_id} |->
     IF p = poll_id
     THEN [correct_option_id |-> correct_option_id + 1, quiz_type |-> quiz_type]
     ELSE tbl[p]]

\* A store that clears the table first and so keeps only the newest poll.
StorePollSessionLatest(tbl, poll_id, correct_option_id, quiz_type) ==
  [p \in {poll_id} |->
     [correct_option_id |-> correct_option_id, quiz_type |-> quiz_type]]

\* An INSERT OR IGNORE: a poll id that has a row keeps it.
StorePollSessionIgnore(tbl, poll_id, correct_option_id, quiz_type) ==
  [p \in DOMAIN tbl \cup {poll_id} |->
     IF p \in DOMAIN tbl THEN tbl[p]
     ELSE [correct_option_id |-> correct_option_id, quiz_type |-> quiz_type]]

\* A store keyed by the category instead of the poll id.
StorePollSessionByType(tbl, poll_id, correct_option_id, quiz_type) ==
  [p \in DOMAIN tbl \cup {quiz_type} |->
     IF p = quiz_type
     THEN [correct_option_id |-> correct_option_id, quiz_type |-> quiz_type]
     ELSE tbl[p]]

\* store_poll_session: INSERT OR REPLACE keyed by the UNIQUE poll_id.
StorePollSession(tbl, poll_id, correct_option_id, quiz_type) ==
  [p \in DOMAIN tbl \cup {poll_id} |->
     IF p = poll_id
     THEN [correct_option_id |-> correct_option_id, quiz_type |-> quiz_type]
     ELSE tbl[p]]

None == [none |-> TRUE]

\* A lookup that uses the row up: the row is deleted once it was read.
SessionsAfterLookupOnce(tbl, poll_id) ==
  [p \in DOMAIN tbl \ {poll_id} |-> tbl[p]]

\* The session table after get_poll_session ran its statement: a SELECT,
\* which leaves the table as it is.
SessionsAfterLookup(tbl, poll_id) == tbl

\* A lookup that answers a missing row with a default row.
GetPollSessionDefault(tbl, poll_id) ==
  IF poll_id \in DOMAIN tbl THEN tbl[poll_id]
  ELSE [correct_option_id |-> 0, quiz_type |-> ""]

\* get_poll_session: the row, or None.
GetPollSession(tbl, poll_id) ==
  IF poll_id \in DOMAIN tbl THEN tbl[poll_id] ELSE None

\* The transport's poll ids: opaque strings, never reused.
NewPollId(created) == "p" \o ToString(Cardinality(DOMAIN created) + 1)

\* An empty option list read as option 0.
SelectedOptionZero(option_ids) == IF option_ids # <<>> THEN option_ids[1] ELSE 0

\* selected_option = poll_answer.option_ids[0] if poll_answer.option_ids else -1
SelectedOption(option_ids) == IF option_ids # <<>> THEN option_ids[1] ELSE -1

OptionIds == {<<>>, <<0>>, <<1>>}

\* ------------------------------------------------------------------- tasks
IdleTask == [pc |-> "idle", user |-> NoUser, quiz_type |-> "", question |-> NoQuestion,
             seq |-> 0, poll_id |-> NoPoll, selected |-> -1, is_correct |-> FALSE]

\* How much of a kind a run does.  Only in the concurrent runs do database
\* and transport calls raise; the racing runs are concurrent runs in which
\* none does.
Limit(kind) ==
  CASE run = "concurrent" ->
         (IF kind = "quiz" THEN MaxRequests
          ELSE IF kind = "answer" THEN MaxAnswers ELSE MaxFaults)
    [] run = "racing" ->
         (IF kind = "quiz" THEN MaxRequests
          ELSE IF kind = "answer" THEN MaxAnswers ELSE 0)
    [] run = "sequential" ->
         (IF kind = "quiz" THEN MaxSeqRequests
          ELSE IF kind = "answer" THEN MaxAnswers ELSE 0)
    [] run = "repeated" ->
         (IF kind = "quiz" THEN MaxRepeatRequests
          ELSE IF kind = "answer" THEN MaxRepeatAnswers ELSE 0)

RECURSIVE SumOver(_, _)
SumOver(f, S) == IF S = {} THEN 0
                 ELSE LET x == CHOOSE y \in S : TRUE IN f[x] + SumOver(f, S \ {x})

InFlight(pcs) == Cardinality({t \in DOMAIN task : task[t].pc \in pcs})

\* Requests that found their category without a question: each of them has
\* recorded two refills that no pop separates.
EmptyHanded(k) ==
  Cardinality({i \in 1..(Len(refillAt[k]) - 1) : refillAt[k][i] = refillAt[k][i + 1]})
    \div 2
\* Questions popped so far, and requests that had none to pop.
Requests == SumOver([k \in DOMAIN popped |-> Len(popped[k]) + EmptyHanded(k)],
                    DOMAIN popped)
\* Answers scored so far and about to be scored.
Answers == SumOver([u \in DOMAIN users |-> users[u].wins + users[u].losses], DOMAIN users)
           + InFlight({"pa_ensure", "pa_score"})

\* A call into the database or the transport returns, or raises.
Returns == {TRUE} \cup (IF faults < Limit("fault") THEN {FALSE} ELSE {})
Counted(ok) == IF ok THEN faults ELSE faults + 1
\* Whether the statement of a writing helper was applied: always when the
\* helper returns; when it raises, not if execute raised, but if commit did.
Applied(ok) == IF ok THEN {TRUE} ELSE {TRUE, FALSE}

\* A sequential run asks for one category only, and so does a racing run
\* (its tasks meet at one bag).
SameCategory(quiz_type) ==
  run \in {"sequential", "racing"} =>
    \A k \in DOMAIN popped : k # quiz_type => popped[k] = <<>>

\* A handler starts in the first free slot.
FreeSlot(t) ==
  /\ task[t].pc = "idle"
  /\ t = "t1" \/ task["t1"].pc # "idle"

\* A reply to the chat or a log line; the "no session" warning names the
\* poll, the leaderboard lists the rows of its query.
Reply(kind) == [kind |-> kind, poll_id |-> NoPoll, rows |-> <<>>]

Continue(t, new) == /\ task' = [task EXCEPT ![t] = new]
                    /\ reply' = Reply("none")

Finish(t, kind) == /\ task' = [task EXCEPT ![t] = IdleTask]
                   /\ reply' = Reply(kind)

FinishAbout(t, kind, poll_id) ==
  /\ task' = [task EXCEPT ![t] = IdleTask]
  /\ reply' = [kind |-> kind, poll_id |-> poll_id, rows |-> <<>>]

\* ------------------------------------------------------------------- Init
\* Module load: the category table is built and every bag is reset once.
RECURSIVE ResetAll(_, _, _)
ResetAll(data, bagsSet, keys) ==
  IF keys = {} THEN bagsSet
  ELSE LET k == CHOOSE x \in keys : TRUE
       IN  ResetAll(data, UNION {ResetShuffledQuiz(data, b, k) : b \in bagsSet},
                    keys \ {k})

InitRun(kind, literal, slots) ==
  /\ run = kind
  /\ QUIZ_DATA = BuildMixedQuiz(literal)
  /\ shuffled_quizzes \in
       ResetAll(QUIZ_DATA, {[k \in DOMAIN QUIZ_DATA |-> <<>>]}, DOMAIN QUIZ_DATA)
  /\ users = <<>>
  /\ quiz_sessions = <<>>
  /\ polls = <<>>
  /\ task = [t \in slots |-> IdleTask]
  /\ reply = Reply("none")
  /\ popped = [k \in DOMAIN QUIZ_DATA |-> <<>>]
  /\ refillAt = [k \in DOMAIN QUIZ_DATA |-> <<0>>]
  /\ scored = {}
  /\ updates = [u \in Users |-> 0]
  /\ faults = 0

Init == InitRun("concurrent", BaseQuizData, Tasks)
InitSeq == InitRun("sequential", BaseQuizData, SeqTasks)
\* Two handlers in flight together, every call returning.
InitRace == InitRun("racing", BaseQuizData, Tasks)
\* One poll, answered again and again.
InitRepeat == InitRun("repeated", BaseQuizData, SeqTasks)
\* Module load with a category of zero questions in the literal.
InitEmpty == InitRun("sequential", EmptiedQuizData, SeqTasks)

\* --------------------------------------------------------------- send_quiz
\* send_quiz as it would be with the pop ahead of ensure_user: a request whose
\* ensure_user raises has taken a question by then.
SendQuizPopFirst(t, user, quiz_type) ==
  /\ FreeSlot(t)
  /\ user # NoUser
  /\ quiz_type \in DOMAIN QUIZ_DATA
  /\ Requests < Limit("quiz")
  /\ SameCategory(quiz_type)
  /\ shuffled_quizzes[quiz_type] # <<>>
  /\ shuffled_quizzes' = [shuffled_quizzes EXCEPT ![quiz_type] = PopRest(@)]
  /\ popped' = [popped EXCEPT ![quiz_type] =
                  Append(@, PopItem(shuffled_quizzes[quiz_type]))]
  /\ \E ok \in Returns :
       /\ faults' = Counted(ok)
       /\ users' = IF ok THEN EnsureUser(users, user) ELSE users
       /\ IF ok
          THEN Continue(t, [IdleTask EXCEPT
                              !.pc = "sq_poll", !.user = user,
                              !.quiz_type = quiz_type,
                              !.question = PopItem(shuffled_quizzes[quiz_type]),
                              !.seq = Len(popped[quiz_type]) + 1])
          ELSE Finish(t, "error")
  /\ UNCHANGED <<QUIZ_DATA, quiz_sessions, polls, refillAt, scored, updates, run>>

\* send_quiz up to its await of answer_poll.  The first await is ensure_user:
\* the step is taken when its statement runs in the database, and the code
\* from its return to answer_poll (the emptiness check, the refill, the
\* "completed" branch, the pop) has no await, so it runs with it.
SendQuiz(t, user, quiz_type) ==
  /\ FreeSlot(t)
  /\ IF quiz_type \notin DOMAIN QUIZ_DATA
     THEN /\ Finish(t, "invalid_category")
          /\ UNCHANGED <<users, shuffled_quizzes, popped, refillAt, faults>>
     ELSE IF user = NoUser
     THEN /\ Finish(t, "none")
          /\ UNCHANGED <<users, shuffled_quizzes, popped, refillAt, faults>>
     ELSE
       /\ Requests < Limit("quiz")
       /\ SameCategory(quiz_type)
       /\ \E ok \in Returns :
            /\ faults' = Counted(ok)
            /\ IF ~ok
               THEN /\ \E done \in Applied(ok) :
                         users' = IF done THEN EnsureUser(users, user) ELSE users
                    /\ Finish(t, "error")
                    /\ UNCHANGED <<shuffled_quizzes, popped, refillAt>>
               ELSE
                 /\ users' = EnsureUser(users, user)
                 /\ LET refill == NeedsReset(shuffled_quizzes, quiz_type)
                        pops == Len(popped[quiz_type])
                    IN  \E bags \in (IF refill
                                     THEN ResetShuffledQuiz(QUIZ_DATA, shuffled_quizzes,
                                                            quiz_type)
                                     ELSE {shuffled_quizzes}) :
                          IF bags[quiz_type] = <<>>
                          THEN /\ shuffled_quizzes' \in
                                    ResetShuffledQuiz(QUIZ_DATA, bags, quiz_type)
                               /\ refillAt' = [refillAt EXCEPT
                                                 ![quiz_type] = @ \o <<pops, pops>>]
                               /\ popped' = popped
                               /\ Finish(t, "completed")
                          ELSE /\ shuffled_quizzes' =
                                    [bags EXCEPT ![quiz_type] = PopRest(@)]
                               /\ popped' = [popped EXCEPT ![quiz_type] =
                                               Append(@, PopItem(bags[quiz_type]))]
                               /\ refillAt' =
                                    IF refill
                                    THEN [refillAt EXCEPT ![quiz_type] = Append(@, pops)]
                                    ELSE refillAt
                               /\ Continue(t, [IdleTask EXCEPT
                                                 !.pc = "sq_poll", !.user = user,
                                                 !.quiz_type = quiz_type,
                                                 !.question = PopItem(bags[quiz_type]),
                                                 !.seq = pops + 1])
  /\ QUIZ_DATA' =
       IF shuffled_quizzes' = shuffled_quizzes THEN QUIZ_DATA
       ELSE [QUIZ_DATA EXCEPT
               ![quiz_type] = ListAfterBagChange(@, shuffled_quizzes'[quiz_type])]
  /\ UNCHANGED <<quiz_sessions, polls, scored, updates, run>>

\* await message.answer_poll(...): the transport creates the poll and returns
\* its id, or raises TelegramBadRequest, or raises another error.
SendQuizAnswerPoll(t) ==
  /\ task[t].pc = "sq_poll"
  /\ \E ok \in Returns, raised \in {"failed_send", "error"} :
       /\ faults' = Counted(ok)
       /\ IF ok
          THEN LET id == NewPollId(polls)
               IN  /\ polls' = [p \in DOMAIN polls \cup {id} |->
                                  IF p = id THEN [question |-> task[t].question,
                                                  quiz_type |-> task[t].quiz_type,
                                                  seq |-> task[t].seq]
                                  ELSE polls[p]]
                   /\ task' = [task EXCEPT ![t].pc = "sq_store", ![t].poll_id = id]
                   /\ reply' = Reply("none")
          ELSE /\ polls' = polls
               /\ Finish(t, raised)
  /\ UNCHANGED <<QUIZ_DATA, shuffled_quizzes, users, quiz_sessions, popped, refillAt,
                 scored, updates, run>>

\* await store_poll_session(...)
SendQuizStoreSession(t) ==
  /\ task[t].pc = "sq_store"
  /\ \E ok \in Returns :
       /\ faults' = Counted(ok)
       /\ \E done \in Applied(ok) :
            quiz_sessions' = IF done
                             THEN StorePollSession(quiz_sessions, task[t].poll_id,
                                                   task[t].question[3], task[t].quiz_type)
                             ELSE quiz_sessions
       /\ Finish(t, IF ok THEN "none" ELSE "error")
  /\ UNCHANGED <<QUIZ_DATA, shuffled_quizzes, users, polls, popped, refillAt,
                 scored, updates, run>>

\* ------------------------------------------------------ handle_poll_answer
\* A poll-answer update arrives, for a poll the transport has created or for
\* a poll id this process knows nothing about, and handle_poll_answer runs up
\* to the return of get_poll_session.  A database error is logged inside
\* get_poll_session, which then returns None as for a missing row.
PollAnswer(t, user, poll_id, option_ids) ==
  /\ FreeSlot(t)
  /\ Answers < Limit("answer")
  /\ \E ok \in Returns :
       /\ faults' = Counted(ok)
       /\ LET selected_option == SelectedOption(option_ids)
              session_data == IF ok THEN GetPollSession(quiz_sessions, poll_id)
                              ELSE None
          IN  IF session_data = None THEN FinishAbout(t, "no_session", poll_id)
              ELSE Continue(t, [IdleTask EXCEPT
                                  !.pc = "pa_ensure", !.user = user,
                                  !.poll_id = poll_id, !.selected = selected_option,
                                  !.is_correct =
                                     (selected_option = session_data.correct_option_id)])
       /\ quiz_sessions' = IF ok THEN SessionsAfterLookup(quiz_sessions, poll_id)
                           ELSE quiz_sessions
  /\ UNCHANGED <<QUIZ_DATA, shuffled_quizzes, users, polls, popped, refillAt,
                 scored, updates, run>>

\* await ensure_user(...)
PollAnswerEnsureUser(t) ==
  /\ task[t].pc = "pa_ensure"
  /\ \E ok \in Returns :
       /\ faults' = Counted(ok)
       /\ \E done \in Applied(ok) :
            users' = IF done THEN EnsureUser(users, task[t].user) ELSE users
       /\ IF ok THEN /\ task' = [task EXCEPT ![t].pc = "pa_score"]
                     /\ reply' = Reply("none")
          ELSE Finish(t, "error")
  /\ UNCHANGED <<QUIZ_DATA, shuffled_quizzes, quiz_sessions, polls, popped, refillAt,
                 scored, updates, run>>

\* await update_score(user_id, is_correct)
PollAnswerUpdateScore(t) ==
  /\ task[t].pc = "pa_score"
  /\ \E ok \in Returns :
       /\ faults' = Counted(ok)
       /\ \E done \in Applied(ok) :
            IF done
            THEN /\ users' = UpdateScore(users, task[t].user, task[t].is_correct)
                 /\ scored' = IF run = "repeated"
                              THEN scored \cup {<<task[t].poll_id, task[t].user>>}
                              ELSE scored
            ELSE /\ users' = users
                 /\ scored' = scored
       /\ updates' = IF ok THEN [updates EXCEPT ![task[t].user] = @ + 1] ELSE updates
       /\ Finish(t, IF ok THEN "none" ELSE "error")
  /\ UNCHANGED <<QUIZ_DATA, shuffled_quizzes, quiz_sessions, polls, popped, refillAt,
                 run>>

\* --------------------------------------------------------------- cmd_start
\* cmd_start: ensure_user, then the welcome text, or the error text under the
\* log line "Error in start command".
CmdStart(t, user) ==
  /\ FreeSlot(t)
  /\ IF user = NoUser
     THEN /\ Finish(t, "none")
          /\ UNCHANGED <<users, faults>>
     ELSE \E ok \in Returns :
            /\ faults' = Counted(ok)
            /\ \E done \in Applied(ok) :
                 users' = IF done THEN EnsureUser(users, user) ELSE users
            /\ Finish(t, IF ok THEN "none" ELSE "start_error")
  /\ UNCHANGED <<QUIZ_DATA, shuffled_quizzes, quiz_sessions, polls, popped, refillAt,
                 scored, updates, run>>

\* ---------------------------------------------------------- cmd_statistics
\* ORDER BY wins DESC, losses ASC: whether row a must come before row b.
RanksBefore(a, b) == a.wins > b.wins \/ (a.wins = b.wins /\ a.losses < b.losses)

\* The rows of a set of users in an order the ORDER BY allows; rows that it
\* ranks alike come in any order.
Ordered(tbl, S) ==
  {[i \in DOMAIN s |-> [user_id |-> s[i], wins |-> tbl[s[i]].wins,
                         losses |-> tbl[s[i]].losses]] :
     s \in {x \in [1..Cardinality(S) -> S] :
             /\ \A i, j \in DOMAIN x : i # j => x[i] # x[j]
             /\ \A i, j \in DOMAIN x :
                  i < j => ~RanksBefore(tbl[x[j]], tbl[x[i]])}}

\* LIMIT ?: the first rows, as many as the limit allows.
Limited(rows, limit) ==
  SubSeq(rows, 1, IF Len(rows) < limit THEN Len(rows) ELSE limit)

\* The query without its WHERE clause: every row of users takes part.
LeaderboardAll(tbl, limit) ==
  {Limited(rows, limit) : rows \in Ordered(tbl, DOMAIN tbl)}

\* The leaderboard query of cmd_statistics: the results it can return.
Leaderboard(tbl, limit) ==
  {Limited(rows, limit) :
     rows \in Ordered(tbl, {u \in DOMAIN tbl : tbl[u].wins > 0 \/ tbl[u].losses > 0})}

\* cmd_statistics: a SELECT on users, then the leaderboard text over the rows
\* it returned (or the error text); it writes to no table.
CmdStatistics(t) ==
  /\ FreeSlot(t)
  /\ \E ok \in Returns :
       /\ faults' = Counted(ok)
       /\ task' = [task EXCEPT ![t] = IdleTask]
       /\ IF ok
          THEN \E rows \in Leaderboard(users, LEADERBOARD_SIZE) :
                 reply' = [Reply("statistics") EXCEPT !.rows = rows]
          ELSE reply' = Reply("statistics_error")
  /\ UNCHANGED <<QUIZ_DATA, shuffled_quizzes, users, quiz_sessions, polls, popped,
                 refillAt, scored, updates, run>>

\* -------------------------------------------------------------------- Next
Next ==
  \/ \E t \in DOMAIN task, u \in Senders \cup {NoUser},
        qt \in QuizCommands \cup {UnknownCategory} : SendQuiz(t, u, qt)
  \/ \E t \in DOMAIN task : SendQuizAnswerPoll(t)
  \/ \E t \in DOMAIN task : SendQuizStoreSession(t)
  \/ \E t \in DOMAIN task, u \in Users, p \in DOMAIN polls \cup {ForeignPoll},
        o \in OptionIds : PollAnswer(t, u, p, o)
  \/ \E t \in DOMAIN task : PollAnswerEnsureUser(t)
  \/ \E t \in DOMAIN task : PollAnswerUpdateScore(t)
  \/ \E t \in DOMAIN task, u \in Senders \cup {NoUser} : CmdStart(t, u)
  \/ \E t \in DOMAIN task : CmdStatistics(t)

Spec == Init /\ [][Next]_vars

\* Handlers run to completion one after the other.
SpecSeq == InitSeq /\ [][Next]_vars

\* Handlers interleave at their awaits; no call raises.
SpecRace == InitRace /\ [][Next]_vars

\* Handlers run one after the other; few polls, answered repeatedly.
SpecRepeat == InitRepeat /\ [][Next]_vars

\* Handlers run one after the other over a table with an empty category.
SpecEmpty == InitEmpty /\ [][Next]_vars

\* ------------------------------------------------------- derived notions
Range(l) == {l[i] : i \in DOMAIN l}
Occurrences(l, x) == Cardinality({i \in DOMAIN l : l[i] = x})
Categories == DOMAIN QUIZ_DATA
N(c) == Len(QUIZ_DATA[c])

\* The entries popped from category c after its k-th refill, up to the next
\* refill (or up to now).
CycleStart(c, k) == refillAt[c][k]
CycleEnd(c, k) == IF k < Len(refillAt[c]) THEN refillAt[c][k + 1] ELSE Len(popped[c])
Cycle(c, k) == SubSeq(popped[c], CycleStart(c, k) + 1, CycleEnd(c, k))

\* ------------------------------------------------------------------ claims

\* C1 (shuffle coverage): in every category with N questions, the N pops
\* that follow a refill of its bag take exactly the entries of the category's
\* list, each entry once (equal as multisets).
C1_ShuffleCoverage ==
  \A c \in Categories : \A k \in DOMAIN refillAt[c] :
    Len(popped[c]) >= CycleStart(c, k) + N(c) =>
      SeqToBag(SubSeq(popped[c], CycleStart(c, k) + 1, CycleStart(c, k) + N(c)))
        = SeqToBag(QUIZ_DATA[c])

\* A category of several questions has been popped through a whole cycle.
C1_Witness ==
  \E c \in Categories : N(c) >= 2 /\ Len(popped[c]) >= N(c)
                        /\ Cardinality(Range(QUIZ_DATA[c])) >= 2

\* C2 (cycle restart): in every category with N questions the bag is refilled
\* exactly when the (N+1)-th, (2N+1)-th, ... request finds it empty, and the
\* first 2N pops take every list entry exactly twice.
C2_CycleRestart ==
  \A c \in Categories :
    /\ \A k \in DOMAIN refillAt[c] : refillAt[c][k] = (k - 1) * N(c)
    /\ Len(refillAt[c]) = IF popped[c] = <<>> THEN 1
                          ELSE ((Len(popped[c]) - 1) \div N(c)) + 1
    /\ Len(popped[c]) >= 2 * N(c) =>
         \A q \in Range(QUIZ_DATA[c]) :
           Occurrences(SubSeq(popped[c], 1, 2 * N(c)), q)
             = 2 * Occurrences(QUIZ_DATA[c], q)

\* A category of several questions has been popped through two whole cycles.
C2_Witness ==
  \E c \in Categories : N(c) >= 2 /\ Len(popped[c]) >= 2 * N(c) /\ Len(refillAt[c]) >= 2

\* The polls created for the entries popped from c in its k-th cycle.
SentInCycle(c, k) ==
  {p \in DOMAIN polls : /\ polls[p].quiz_type = c
                        /\ polls[p].seq > CycleStart(c, k)
                        /\ polls[p].seq <= CycleEnd(c, k)}
\* A task has popped an entry of that cycle and has not called answer_poll yet.
SendingInCycle(c, k) ==
  \E t \in DOMAIN task : /\ task[t].pc = "sq_poll"
                         /\ task[t].quiz_type = c
                         /\ task[t].seq > CycleStart(c, k)
                         /\ task[t].seq <= CycleEnd(c, k)

\* C3 (no question skipped): once a refill has ended a cycle of a category
\* and no request of that cycle is still on its way to the transport, every
\* entry of the category's list has been sent as a poll in that cycle.
C3_NoQuestionSkipped ==
  \A c \in Categories : \A k \in 1..(Len(refillAt[c]) - 1) :
    ~SendingInCycle(c, k) =>
      \A q \in Range(QUIZ_DATA[c]) :
        Cardinality({p \in SentInCycle(c, k) : polls[p].question = q})
          = Occurrences(QUIZ_DATA[c], q)

\* Two servings i < j of the same question with no serving of it in between.
NextServing(c, i, j) ==
  /\ i < j
  /\ popped[c][i] = popped[c][j]
  /\ \A m \in (i + 1)..(j - 1) : popped[c][m] # popped[c][i]
\* i is the last pop of a cycle and j the first pop of the next one.
AcrossRefill(c, i, j) == j = i + 1 /\ \E k \in DOMAIN refillAt[c] : refillAt[c][k] = i

\* C4 (repeat only after the others): when a question of a category is
\* served again, every other question of the category has been served in
\* between, unless the two servings are the last of one cycle and the first
\* of the next.
C4_RepeatOnlyAfterOthers ==
  \A c \in Categories : \A i, j \in DOMAIN popped[c] :
    (NextServing(c, i, j) /\ ~AcrossRefill(c, i, j)) =>
      \A q \in Range(QUIZ_DATA[c]) \ {popped[c][i]} :
        \E m \in (i + 1)..(j - 1) : popped[c][m] = q

\* C5 (mixed category): "aquiz" has as many entries as the other categories
\* together, and every question record occurs in it as often as in the
\* other categories together.
C5_MixedIsConcatenation ==
  LET others == Categories \ {"aquiz"}
  IN  /\ N("aquiz") = SumOver([c \in others |-> N(c)], others)
      /\ \A q \in UNION {Range(QUIZ_DATA[c]) : c \in Categories} :
           Occurrences(QUIZ_DATA["aquiz"], q)
             = SumOver([c \in others |-> Occurrences(QUIZ_DATA[c], q)], others)

\* C6 (no empty bag observed): no request ends with the "completed all
\* questions" reply, and a request that finds the bag of its category empty
\* pops from a refilled bag, i.e. the popped entry and the entries left in
\* the bag are together the category's list.
C6_NeverEmptyBag ==
  [][/\ reply'.kind # "completed"
     /\ \A t \in DOMAIN task :
          (task[t].pc = "idle" /\ task'[t].pc = "sq_poll"
             /\ shuffled_quizzes[task'[t].quiz_type] = <<>>) =>
            SeqToBag(Append(shuffled_quizzes'[task'[t].quiz_type], task'[t].question))
              = SeqToBag(QUIZ_DATA[task'[t].quiz_type])]_vars

\* A request found its bag empty and was served from the refilled bag.
C6_Witness ==
  \E t \in DOMAIN task :
    /\ task[t].pc = "sq_poll"
    /\ Len(refillAt[task[t].quiz_type]) >= 2
    /\ task[t].seq = refillAt[task[t].quiz_type][Len(refillAt[task[t].quiz_type])] + 1

\* C7 (correlator correctness): when update_score completes for an answer to
\* a registered poll, the answering user's wins grow by exactly 1 and the
\* losses stay if the selected option is the poll's registered correct
\* index; otherwise the losses grow by exactly 1 and the wins stay.
C7_CorrelatorCorrectness ==
  [][\A t \in DOMAIN task :
       (task[t].pc = "pa_score" /\ task'[t].pc = "idle" /\ reply'.kind # "error") =>
         LET u == task[t].user
             c == quiz_sessions[task[t].poll_id].correct_option_id
         IN  /\ u \in DOMAIN users /\ u \in DOMAIN users'
             /\ IF task[t].selected = c
                THEN /\ users'[u].wins = users[u].wins + 1
                     /\ users'[u].losses = users[u].losses
                ELSE /\ users'[u].wins = users[u].wins
                     /\ users'[u].losses = users[u].losses + 1]_vars

\* Both a right and a wrong answer can be scored; here a right one was.
C7_Witness == \E u \in DOMAIN users : users[u].wins >= 1

\* C8 (correlator miss): an answer whose poll id has no session row is not
\* scored: it ends with the "no session" warning and leaves the users table,
\* the session table and every other task as they were; only answers whose
\* poll id has a row go on to ensure_user.
C8_CorrelatorMiss ==
  [][/\ reply'.kind = "no_session" =>
          /\ users' = users
          /\ quiz_sessions' = quiz_sessions
          /\ \A t \in DOMAIN task : task'[t] = task[t] \/ task[t].pc = "idle"
     /\ \A t \in DOMAIN task :
          (task[t].pc = "idle" /\ task'[t].pc = "pa_ensure") =>
            task'[t].poll_id \in DOMAIN quiz_sessions]_vars

\* An answer for an unknown poll id was dropped, with no database error.
C8_Witness == reply.kind = "no_session" /\ reply.poll_id = ForeignPoll /\ faults = 0

\* C9 (register before resolve): an answer to a poll this process has sent
\* is never dropped for want of a session row.
C9_RegisterBeforeResolve ==
  [][(reply'.kind = "no_session" /\ faults' = faults) =>
       reply'.poll_id \notin DOMAIN polls]_vars

\* C10 as claimed: every poll the transport has created has a session row
\* once the send_quiz that created it has finished.
C10_EveryPollRegistered ==
  \A p \in DOMAIN polls :
    (\A t \in DOMAIN task : ~(task[t].pc = "sq_store" /\ task[t].poll_id = p)) =>
      p \in DOMAIN quiz_sessions

\* C10 as amended: send_quiz calls store_poll_session once for the poll that
\* answer_poll returned; when the call returns, the row of that poll id (and
\* no other row) has been added by it; when the call raises, send_quiz ends
\* with the error reply and the row was written or not, but no other row.
C10_RegisteredUnlessStoreFails ==
  [][\A t \in DOMAIN task :
       (task[t].pc = "sq_store" /\ task'[t] # task[t]) =>
         /\ task'[t].pc = "idle"
         /\ task[t].poll_id \in DOMAIN polls
         /\ task[t].poll_id \notin DOMAIN quiz_sessions
         /\ \A p \in DOMAIN quiz_sessions :
              p \in DOMAIN quiz_sessions' /\ quiz_sessions'[p] = quiz_sessions[p]
         /\ IF reply'.kind = "error"
            THEN DOMAIN quiz_sessions' \subseteq DOMAIN quiz_sessions \cup {task[t].poll_id}
            ELSE DOMAIN quiz_sessions' = DOMAIN quiz_sessions \cup {task[t].poll_id}]_vars

\* A poll was created and its session row was stored.
C10_Witness == \E p \in DOMAIN polls : p \in DOMAIN quiz_sessions

\* C11 (one counted answer per poll and user): update_score never completes
\* for a (poll id, user) pair it has completed for before, so no second
\* poll-answer event of the pair changes the user's wins or losses.
C11_OneCountedAnswer ==
  [][\A t \in DOMAIN task :
       (task[t].pc = "pa_score" /\ task'[t].pc = "idle" /\ users' # users) =>
         <<task[t].poll_id, task[t].user>> \notin scored]_vars

\* C12 (scores are monotonic): no step deletes a user row or lowers a
\* user's wins or losses, and no step leaves a negative wins or losses.
C12_ScoresMonotonic ==
  [][/\ \A u \in DOMAIN users :
          /\ u \in DOMAIN users'
          /\ users'[u].wins >= users[u].wins
          /\ users'[u].losses >= users[u].losses
     /\ \A u \in DOMAIN users' : users'[u].wins >= 0 /\ users'[u].losses >= 0]_vars

\* A user with a counted loss has sent a quiz command since (ensure_user ran
\* on the scored row) and is still in the table with that loss.
C12_Witness ==
  \E t \in DOMAIN task :
    /\ task[t].pc = "sq_poll"
    /\ task[t].user \in DOMAIN users
    /\ users[task[t].user].losses >= 1

\* A step that is not the completion of an update_score.
NoScoreStep == \A t \in DOMAIN task : task[t].pc = "pa_score" => task'[t] = task[t]

\* C13 (ensure_user is idempotent on scores): a step that runs ensure_user
\* leaves the user's row in the table, with wins = losses = 0 if the row is
\* new and with the wins and losses it had otherwise, and changes no other
\* row; running ensure_user a second time changes nothing.
C13_EnsureUserIdempotent ==
  [][/\ \A u \in DOMAIN users' \ DOMAIN users : users'[u] = [wins |-> 0, losses |-> 0]
     /\ NoScoreStep =>
          \A u \in DOMAIN users : u \in DOMAIN users' /\ users'[u] = users[u]
     /\ \A t \in DOMAIN task :
          /\ (task[t].pc = "idle" /\ task'[t].pc = "sq_poll") =>
                task'[t].user \in DOMAIN users'
          /\ (task[t].pc = "pa_ensure" /\ task'[t].pc = "pa_score") =>
                task[t].user \in DOMAIN users'
     /\ \A u \in Users :
          EnsureUser(EnsureUser(users, u), u) = EnsureUser(users, u)]_vars

\* ensure_user has run for a user whose row already held a counted answer.
C13_Witness ==
  \E t \in DOMAIN task :
    /\ task[t].pc = "pa_score"
    /\ users[task[t].user].wins + users[task[t].user].losses >= 1

\* C14 (unknown category): a send_quiz for a quiz_type that is no key of
\* QUIZ_DATA ends with the invalid-category reply and changes no bag, no
\* user row, no poll and no session row; only known categories are served;
\* reset_shuffled_quiz for such a key leaves the bags as they are.
C14_UnknownCategory ==
  [][/\ \A t \in DOMAIN task, u \in Senders \cup {NoUser} :
          SendQuiz(t, u, UnknownCategory) =>
            /\ reply'.kind = "invalid_category"
            /\ task'[t] = IdleTask
            /\ UNCHANGED <<QUIZ_DATA, shuffled_quizzes, users, quiz_sessions, polls,
                           popped, refillAt>>
     /\ reply'.kind = "invalid_category" =>
          UNCHANGED <<QUIZ_DATA, shuffled_quizzes, users, quiz_sessions, polls>>
     /\ \A t \in DOMAIN task :
          task'[t].pc = "sq_poll" => task'[t].quiz_type \in DOMAIN QUIZ_DATA
     /\ ResetShuffledQuiz(QUIZ_DATA, shuffled_quizzes, UnknownCategory)
          = {shuffled_quizzes}]_vars

\* An unknown category was refused while a bag was partly served.
C14_Witness ==
  /\ reply.kind = "invalid_category"
  /\ \E c \in Categories : popped[c] # <<>> /\ shuffled_quizzes[c] # <<>>

\* A step in which a database call raised (not the transport's answer_poll).
DatabaseCallRaised ==
  /\ faults' > faults
  /\ \A t \in DOMAIN task : task[t].pc = "sq_poll" => task'[t] = task[t]

\* C15 (persistence errors are propagated): a step in which a database call
\* raises ends its handler with that exception: not with the warning a
\* missing session row gets, and not with a caught-and-reported error.
C15_PersistenceErrorsPropagate ==
  [][DatabaseCallRaised =>
       /\ reply'.kind # "no_session"
       /\ reply'.kind = "raised"]_vars

C17_CategoriesImmutable ==
  [][/\ QUIZ_DATA' = QUIZ_DATA
     /\ \A t \in DOMAIN task :
          (task[t].pc = "idle" /\ task'[t].pc = "sq_poll") =>
            task'[t].question \in Range(QUIZ_DATA'[task'[t].quiz_type])]_vars

\* A bag was emptied, refilled from the category's list and popped again.
C17_Witness ==
  \E c \in Categories : Len(popped[c]) > N(c) /\ Len(shuffled_quizzes[c]) < N(c)

\* C18 (register is insert-or-overwrite by poll id): on every table the
\* program reaches, for every poll id (with a row or without), storing index
\* c makes the lookup return c, storing c2 after it makes the lookup return
\* c2, the second store adds no row, and the rows of other poll ids stay.
C18_RegisterOverwrites ==
  \A p \in DOMAIN polls \cup {ForeignPoll}, c \in {0, 1}, c2 \in {0, 1} :
    LET once  == StorePollSession(quiz_sessions, p, c, "xquiz")
        twice == StorePollSession(once, p, c2, "aquiz")
    IN  /\ GetPollSession(once, p) # None
        /\ GetPollSession(once, p).correct_option_id = c
        /\ GetPollSession(twice, p) # None
        /\ GetPollSession(twice, p).correct_option_id = c2
        /\ DOMAIN once = DOMAIN quiz_sessions \cup {p}
        /\ DOMAIN twice = DOMAIN once
        /\ \A q \in DOMAIN quiz_sessions \ {p} :
             once[q] = quiz_sessions[q] /\ twice[q] = quiz_sessions[q]

\* The table holds rows of two polls with different correct indices.
C18_Witness ==
  \E p, q \in DOMAIN quiz_sessions :
    quiz_sessions[p].correct_option_id # quiz_sessions[q].correct_option_id

\* C19 (pending polls never expire): no step removes or alters a session
\* row: a poll id that has a row keeps it, and its lookup keeps returning
\* the same row, whatever is answered or requested afterwards.
C19_SessionsNeverExpire ==
  [][\A p \in DOMAIN quiz_sessions :
       /\ p \in DOMAIN quiz_sessions'
       /\ GetPollSession(quiz_sessions', p) = quiz_sessions[p]]_vars

\* Rows of several polls are in the table after an answer has been scored.
C19_Witness ==
  /\ Cardinality(DOMAIN quiz_sessions) >= 2
  /\ \E u \in DOMAIN users : users[u].wins + users[u].losses >= 1

\* The tasks of send_quiz that hold a popped entry.
Holding == {t \in DOMAIN task : task[t].pc \in {"sq_poll", "sq_store"}}

\* C20 (refill and pop are atomic): however send_quiz tasks interleave, no
\* two of them hold the same pop of a bag, no cycle of a category pops an
\* entry more often than the category's list holds it, and a cycle that a
\* refill has ended has popped the whole list.
C20_AtomicRefillAndPop ==
  /\ \A t1, t2 \in Holding :
       (t1 # t2 /\ task[t1].quiz_type = task[t2].quiz_type) =>
         task[t1].seq # task[t2].seq
  /\ \A c \in Categories : \A k \in DOMAIN refillAt[c] :
       /\ \A q \in Range(Cycle(c, k)) :
            Occurrences(Cycle(c, k), q) <= Occurrences(QUIZ_DATA[c], q)
       /\ k < Len(refillAt[c]) => SeqToBag(Cycle(c, k)) = SeqToBag(QUIZ_DATA[c])

\* Two send_quiz tasks are between their pop and their answer_poll on the
\* same category, the later one having refilled the bag.
C20_Witness ==
  \E t1, t2 \in DOMAIN task :
    /\ t1 # t2
    /\ task[t1].pc = "sq_poll" /\ task[t2].pc = "sq_poll"
    /\ task[t1].quiz_type = task[t2].quiz_type
    /\ Len(refillAt[task[t1].quiz_type]) >= 2

\* C21 (the session matches the question sent): every session row belongs to
\* a poll the transport created; its correct_option_id is the correct index
\* of the question sent in that poll, which is the entry send_quiz popped
\* for it, and its quiz_type is the category that was requested.
C21_SessionMatchesQuestion ==
  \A p \in DOMAIN quiz_sessions :
    /\ p \in DOMAIN polls
    /\ quiz_sessions[p].correct_option_id = polls[p].question[3]
    /\ quiz_sessions[p].quiz_type = polls[p].quiz_type
    /\ polls[p].seq \in DOMAIN popped[polls[p].quiz_type]
    /\ polls[p].question = popped[polls[p].quiz_type][polls[p].seq]

\* Two polls carrying different questions are both registered.
C21_Witness ==
  \E p, q \in DOMAIN quiz_sessions :
    p \in DOMAIN polls /\ q \in DOMAIN polls /\ polls[p].question # polls[q].question

\* C22 (resolve is repeatable): an answer to a poll that has a session row
\* is looked up successfully and judged against the row's correct index,
\* whoever has answered that poll before; the lookup and the scoring leave
\* the row as it is, so a poll that was scored stays registered.
C22_ResolveRepeatable ==
  [][/\ \A t \in DOMAIN task, u \in Users, p \in DOMAIN quiz_sessions, o \in OptionIds :
          PollAnswer(t, u, p, o) =>
            /\ task'[t].pc = "pa_ensure"
            /\ task'[t].is_correct =
                 (SelectedOption(o) = quiz_sessions[p].correct_option_id)
            /\ quiz_sessions' = quiz_sessions
     /\ \A t \in DOMAIN task :
          task[t].pc \in {"pa_ensure", "pa_score"} /\ task'[t] # task[t] =>
            quiz_sessions' = quiz_sessions
     /\ \A pu \in scored' : pu[1] \in DOMAIN quiz_sessions']_vars

\* Two different users have been scored on the same poll.
C22_Witness ==
  \E pu, qv \in scored : pu[1] = qv[1] /\ pu[2] # qv[2]

C24_OneCounterChanges ==
  [][\A t \in DOMAIN task :
       /\ (task[t].pc = "pa_score" /\ task'[t].pc = "idle" /\ reply'.kind # "error") =>
            LET u == task[t].user
            IN  /\ DOMAIN users' = DOMAIN users
                /\ \/ /\ users'[u].wins = users[u].wins + 1
                      /\ users'[u].losses = users[u].losses
                   \/ /\ users'[u].wins = users[u].wins
                      /\ users'[u].losses = users[u].losses + 1
                /\ \A v \in DOMAIN users \ {u} : users'[v] = users[v]
                /\ UNCHANGED <<shuffled_quizzes, quiz_sessions, QUIZ_DATA>>
       /\ (task'[t].pc \in {"pa_ensure", "pa_score"} /\ task'[t] # task[t]) =>
            /\ \A v \in DOMAIN users : users'[v] = users[v]
            /\ UNCHANGED <<shuffled_quizzes, quiz_sessions, QUIZ_DATA>>]_vars

\* One user has exactly one counted answer while another user's row is
\* still at 0/0.
C24_Witness ==
  \E u, v \in DOMAIN users :
    /\ users[u].wins + users[u].losses = 1
    /\ users[v].wins = 0 /\ users[v].losses = 0

\* C25 (an empty option list is a loss): an answer without a selected option
\* to a poll that has a session row is taken as option -1, which is no
\* row's correct index; it is judged incorrect, goes on to be scored, and
\* its scoring adds 1 to the user's losses and nothing to the wins.
C25_EmptyAnswerIsLoss ==
  [][/\ \A t \in DOMAIN task, u \in Users, p \in DOMAIN quiz_sessions :
          PollAnswer(t, u, p, <<>>) =>
            /\ task'[t].pc = "pa_ensure"
            /\ task'[t].selected = -1
            /\ ~task'[t].is_correct
     /\ \A p \in DOMAIN quiz_sessions : quiz_sessions[p].correct_option_id # -1
     /\ \A t \in DOMAIN task :
          (/\ task[t].pc = "pa_score" /\ task[t].selected = -1
           /\ task'[t].pc = "idle" /\ reply'.kind # "error") =>
            /\ users'[task[t].user].losses = users[task[t].user].losses + 1
            /\ users'[task[t].user].wins = users[task[t].user].wins]_vars

\* An answer without an option, to a poll whose correct index is 0, is about
\* to be scored as incorrect.
C25_Witness ==
  \E t \in DOMAIN task :
    /\ task[t].pc = "pa_score"
    /\ task[t].selected = -1 /\ ~task[t].is_correct
    /\ quiz_sessions[task[t].poll_id].correct_option_id = 0

\* C26: a send_quiz that stops before the pop (the message has no sender, or
\* ensure_user raises, as it does when the database is not initialised)
\* refills no bag, pops no question, sends no poll and stores no session row;
\* it ends with nothing in flight.
C26_EarlyExitTouchesNothing ==
  [][\A t \in DOMAIN task, u \in Senders \cup {NoUser}, qt \in QuizCommands :
       ((u = NoUser \/ faults' > faults) /\ SendQuiz(t, u, qt)) =>
         /\ UNCHANGED <<shuffled_quizzes, QUIZ_DATA, popped, refillAt, polls,
                        quiz_sessions>>
         /\ task'[t] = IdleTask
         /\ reply'.kind = IF u = NoUser THEN "none" ELSE "error"]_vars

\* The first request of a run has ended with the error text of send_quiz:
\* its ensure_user raised, and every bag is whole.
C26_Witness ==
  /\ reply.kind = "error"
  /\ faults = 1
  /\ polls = <<>>
  /\ \A k \in DOMAIN popped : popped[k] = <<>> /\ refillAt[k] = <<0>>
  /\ \A k \in DOMAIN QUIZ_DATA : Len(shuffled_quizzes[k]) = Len(QUIZ_DATA[k])
  /\ \A t \in DOMAIN task : task[t] = IdleTask

\* C27 (bags are independent): a send_quiz for one category changes the bag
\* of that category only; the bags of all other categories, with their pop
\* and refill histories, are what they were.  In particular a request for
\* aquiz takes nothing from the bags of the base categories, and a request
\* for a base category takes nothing from the bag of aquiz.
C27_BagsIndependent ==
  [][\A t \in DOMAIN task, u \in Senders, qt \in QuizCommands :
       (shuffled_quizzes' # shuffled_quizzes /\ SendQuiz(t, u, qt)) =>
         /\ shuffled_quizzes'[qt] # shuffled_quizzes[qt]
         /\ \A c \in Categories \ {qt} :
              /\ shuffled_quizzes'[c] = shuffled_quizzes[c]
              /\ popped'[c] = popped[c]
              /\ refillAt'[c] = refillAt[c]]_vars

\* A base category and aquiz have each served one question: the bag of the
\* base category has lost its one entry, the bag of aquiz one of its own,
\* and the bag of the category nobody asked for is whole.
C27_Witness ==
  \E c, d \in Categories \ {"aquiz"} :
    /\ c # d
    /\ Len(popped[c]) = 1 /\ Len(popped["aquiz"]) = 1 /\ popped[d] = <<>>
    /\ Len(shuffled_quizzes[c]) = N(c) - 1
    /\ Len(shuffled_quizzes["aquiz"]) = N("aquiz") - 1
    /\ Len(shuffled_quizzes[d]) = N(d)

\* The entries of a category popped since its last refill.
PoppedSinceRefill(c) == Cycle(c, Len(refillAt[c]))

\* C28 (bag containment): in every reachable state the bag of every category
\* is a sub-multiset of the category's list, so it holds between 0 and N
\* entries, and the entries popped since the last refill together with the
\* entries still in the bag are exactly the category's list.
C28_BagContainment ==
  \A c \in Categories :
    /\ c \in DOMAIN shuffled_quizzes
    /\ Len(shuffled_quizzes[c]) \in 0..N(c)
    /\ \A q \in Range(shuffled_quizzes[c]) :
         Occurrences(shuffled_quizzes[c], q) <= Occurrences(QUIZ_DATA[c], q)
    /\ SeqToBag(PoppedSinceRefill(c) \o shuffled_quizzes[c]) = SeqToBag(QUIZ_DATA[c])

\* A category of several questions has been refilled and is partly served
\* again: part of its list is popped, the rest still in the bag.
C28_Witness ==
  \E c \in Categories :
    /\ N(c) >= 2
    /\ Len(refillAt[c]) >= 2
    /\ PoppedSinceRefill(c) # <<>>
    /\ shuffled_quizzes[c] # <<>>

\* The users a leaderboard lists.
Listed(rows) == {rows[i].user_id : i \in DOMAIN rows}

\* C29 (the leaderboard query): the rows cmd_statistics gets are rows of
\* users with wins > 0 or losses > 0, each user once, ordered by wins
\* descending and then losses ascending, at most LEADERBOARD_SIZE of them,
\* and a user the LIMIT left out ranks before none of them; a user whom only
\* ensure_user created (0 wins, 0 losses) is not among them.
C29_LeaderboardQuery ==
  reply.kind = "statistics" =>
    LET rows == reply.rows
    IN  /\ \A i \in DOMAIN rows :
             /\ rows[i].user_id \in DOMAIN users
             /\ rows[i].wins = users[rows[i].user_id].wins
             /\ rows[i].losses = users[rows[i].user_id].losses
             /\ rows[i].wins > 0 \/ rows[i].losses > 0
        /\ \A i, j \in DOMAIN rows :
             i < j => /\ rows[i].user_id # rows[j].user_id
                      /\ \/ rows[i].wins > rows[j].wins
                         \/ /\ rows[i].wins = rows[j].wins
                            /\ rows[i].losses <= rows[j].losses
        /\ Len(rows) <= LEADERBOARD_SIZE
        /\ \A u \in DOMAIN users \ Listed(rows) :
             \/ users[u].wins = 0 /\ users[u].losses = 0
             \/ /\ Len(rows) = LEADERBOARD_SIZE
                /\ \A i \in DOMAIN rows : ~RanksBefore(users[u], rows[i])

\* Two users have as many wins as each other and different losses; the
\* leaderboard lists the one with fewer losses first, and the LIMIT has cut
\* the other off.
C29_Witness ==
  /\ reply.kind = "statistics"
  /\ reply.rows # <<>>
  /\ \E u, v \in DOMAIN users :
       /\ users[u].wins = users[v].wins
       /\ users[u].losses < users[v].losses
       /\ users[u].wins + users[u].losses > 0
       /\ reply.rows[1].user_id = u
       /\ v \notin Listed(reply.rows) \/ reply.rows[Len(reply.rows)].user_id = v

====
